---- MODULE Spec2Model ----
(***************************************************************************)
(* Resonance: the session reducer (src/lib/session.ts), the ratified-order *)
(* splice (src/lib/insertStatement.ts) and the per-room server             *)
(* (src/party/index.ts, class ResonanceServer).                            *)
(*                                                                         *)
(* Statement indices, liveStatementIndex and the entries of ratifiedOrder  *)
(* are the 0-based numbers of the source; statements is a TLA+ sequence,   *)
(* so statement i of the source is s.statements[i + 1].                    *)
(***************************************************************************)
EXTENDS Integers, Sequences, FiniteSets, TLC

VARIABLES
    session,          \* the session threaded through sessionReducer (reducer-level runs)
    sessionState,     \* ResonanceServer.sessionState: <<>> is null, <<s>> holds session s
    connections,      \* ids of the open connections (getConnections()), in connect order
    pendingRemovals,  \* ResonanceServer.pendingRemovals: user id -> timer id (0: no entry)
    timers,           \* the setTimeout timers that are armed: records [id, userId]
    nextTimerId,      \* the id the next setTimeout returns
    handlers,         \* the handlers suspended at an await, with their local variables
    received,         \* how many connects, add_statement and vote_response messages
                      \* arrived, and how many of each the run takes
    lastVote,         \* history: the last vote_response the server applied (kept only
                      \* in the runs that start with lastVote.on)
    log               \* history: the last event and what it emitted (kept only in
                      \* the runs that start with log.on)

vars == <<session, sessionState, connections, pendingRemovals, timers,
          nextTimerId, handlers, received, lastVote, log>>

roomVars == <<sessionState, connections, pendingRemovals, timers,
              nextTimerId, handlers, received, lastVote>>

(***************************************************************************)
(* Bounds of the model and the small input sets. A room receives at most   *)
(* MaxConnects connects, MaxStatements add_statement messages and MaxVotes *)
(* vote_response messages, arms at most MaxTimers timers and has at most   *)
(* MaxInflight handlers suspended at once.                                 *)
(***************************************************************************)
Users == {"u1", "u2"}
Texts == {"a", "b"}
ReducerTexts == {"a"}
MaxStatements == 2
MaxPresent == 2
MaxConnects == 2
MaxVotes == 2
MaxTimers == 2
MaxInflight == 2
\* the sessions handed to the scheduler on its own hold up to this many statements
MaxScheduled == 3
\* the runs of a new room that keep the log take this many events
LogConnects == 2
LogAdds == 2
LogVotes == 1
\* the reducer runs that start with a live statement go up to this many statements
StickyStatements == 3
\* the runs that start from a room in use take this many further events
MoreConnects == 1
MoreAdds == 1
MoreVotes == 1

Null == -1

\* no event counted yet, and how many of each kind this run takes
Budget(connects, adds, votes) ==
    [connect |-> 0, add |-> 0, vote |-> 0,
     max |-> [connect |-> connects, add |-> adds, vote |-> votes]]

(***************************************************************************)
(* Sequence helpers (array spread, filter, includes, splice).              *)
(***************************************************************************)
Includes(seq, x) == \E k \in 1..Len(seq) : seq[k] = x

Without(seq, x) == SelectSeq(seq, LAMBDA y : y # x)

\* newOrder.splice(k, 0, x) for 0 <= k <= Len(seq)
Splice(seq, k, x) == SubSeq(seq, 1, k) \o <<x>> \o SubSeq(seq, k + 1, Len(seq))

RemoveAt(seq, k) == SubSeq(seq, 1, k - 1) \o SubSeq(seq, k + 1, Len(seq))

RECURSIVE SeqsUpTo(_, _)
SeqsUpTo(S, n) ==
    IF n = 0 THEN {<<>>}
    ELSE LET shorter == SeqsUpTo(S, n - 1)
         IN  shorter \cup {Append(q, x) : q \in {r \in shorter : Len(r) = n - 1}, x \in S}

\* the members of a set of indices in increasing order
RECURSIVE Ascending(_)
Ascending(S) ==
    IF S = {} THEN <<>>
    ELSE LET least == CHOOSE i \in S : \A j \in S : i <= j
         IN  <<least>> \o Ascending(S \ {least})

(***************************************************************************)
(* src/lib/session.ts                                                      *)
(***************************************************************************)
initializeSession ==
    [statements |-> <<>>, liveStatementIndex |-> Null, ratifiedOrder |-> <<>>]

isStatementResolved(statement) ==
    Cardinality(DOMAIN statement.responses) = Len(statement.present)

Indices(s) == 0..(Len(s.statements) - 1)

getUnresolvedStatements(s) ==
    {i \in Indices(s) : ~isStatementResolved(s.statements[i + 1])}

\* Object.values(statement.responses).every(r => r === true)
allAgreed(statement) ==
    \A u \in DOMAIN statement.responses : statement.responses[u] = TRUE

resolvedCountByCreator(s, creator) ==
    Cardinality({i \in Indices(s) :
        /\ isStatementResolved(s.statements[i + 1])
        /\ s.statements[i + 1].createdBy = creator})

\* CompareUnresolved with a fault: the creators' resolved counts are ignored
CompareByIndexOnly(s, a, b) == a - b

\* the comparator handed to sort, on the statements with indices a and b:
\* negative when a sorts first (session.statements.indexOf finds an element of
\* the array by identity, that is, its own index)
CompareUnresolved(s, a, b) ==
    LET aCreatorCount == resolvedCountByCreator(s, s.statements[a + 1].createdBy)
        bCreatorCount == resolvedCountByCreator(s, s.statements[b + 1].createdBy)
    IN  IF aCreatorCount # bCreatorCount
        THEN aCreatorCount - bCreatorCount
        ELSE a - b

\* one element put into a sorted array, after the elements it does not precede
RECURSIVE SortedInsert(_, _, _)
SortedInsert(s, sorted, x) ==
    IF sorted = <<>> THEN <<x>>
    ELSE IF CompareUnresolved(s, x, Head(sorted)) < 0
    THEN <<x>> \o sorted
    ELSE <<Head(sorted)>> \o SortedInsert(s, Tail(sorted), x)

\* [...unresolvedStatements].sort(comparator)
RECURSIVE SortUnresolved(_, _)
SortUnresolved(s, unresolvedStatements) ==
    IF unresolvedStatements = <<>> THEN <<>>
    ELSE SortedInsert(s,
            SortUnresolved(s, SubSeq(unresolvedStatements, 1,
                                     Len(unresolvedStatements) - 1)),
            unresolvedStatements[Len(unresolvedStatements)])

selectNextLiveStatementIndex(s) ==
    LET unresolvedStatements == Ascending(getUnresolvedStatements(s))
    IN  IF Len(unresolvedStatements) = 0 THEN Null
        ELSE Head(SortUnresolved(s, unresolvedStatements))

\* ReduceAddStatement with a fault: the scheduler is asked even when a
\* statement is live
ReduceAddStatementReselects(s, text, createdBy, presentUsers) ==
    LET updatedSessionWithStatement ==
            [s EXCEPT !.statements = Append(@,
                [text |-> text, createdBy |-> createdBy,
                 present |-> presentUsers, responses |-> <<>>])]
    IN  [updatedSessionWithStatement EXCEPT !.liveStatementIndex =
            selectNextLiveStatementIndex(updatedSessionWithStatement)]

\* case 'ADD_STATEMENT'
ReduceAddStatement(s, text, createdBy, presentUsers) ==
    LET updatedSessionWithStatement ==
            [s EXCEPT !.statements = Append(@,
                [text |-> text, createdBy |-> createdBy,
                 present |-> presentUsers, responses |-> <<>>])]
    IN  [updatedSessionWithStatement EXCEPT !.liveStatementIndex =
            IF s.liveStatementIndex # Null
            THEN s.liveStatementIndex
            ELSE selectNextLiveStatementIndex(updatedSessionWithStatement)]

\* ValidStatementIndex with a fault: > in the place of >=
ValidStatementIndexOffByOne(s, statementIndex) ==
    ~(statementIndex < 0 \/ statementIndex > Len(s.statements))

\* the guard whose failure throws 'Invalid statement index'
ValidStatementIndex(s, statementIndex) ==
    ~(statementIndex < 0 \/ statementIndex >= Len(s.statements))

\* SetResponse with a fault: the other participants' responses are dropped
SetResponseAlone(responses, userId, response) ==
    [u \in {userId} |-> response]

\* { ...statement.responses, [userId]: response }
SetResponse(responses, userId, response) ==
    [u \in DOMAIN responses \cup {userId} |->
        IF u = userId THEN response ELSE responses[u]]

\* ReduceRespond with a fault: the scheduler is asked after every response
ReduceRespondReselects(s, statementIndex, userId, response) ==
    LET updatedSessionWithResponse ==
            [s EXCEPT !.statements[statementIndex + 1].responses =
                SetResponse(@, userId, response)]
    IN  [updatedSessionWithResponse EXCEPT !.liveStatementIndex =
            selectNextLiveStatementIndex(updatedSessionWithResponse)]

\* ReduceRespond with a fault: the response is stored but the live statement
\* is never replaced
ReduceRespondKeepsLive(s, statementIndex, userId, response) ==
    [s EXCEPT !.statements[statementIndex + 1].responses =
        SetResponse(@, userId, response)]

\* case 'RESPOND_TO_STATEMENT', for a statementIndex that passes the guard
ReduceRespond(s, statementIndex, userId, response) ==
    LET updatedSessionWithResponse ==
            [s EXCEPT !.statements[statementIndex + 1].responses =
                SetResponse(@, userId, response)]
        updatedStatement == updatedSessionWithResponse.statements[statementIndex + 1]
        isNowResolved == isStatementResolved(updatedStatement)
    IN  [updatedSessionWithResponse EXCEPT !.liveStatementIndex =
            IF isNowResolved /\ s.liveStatementIndex = statementIndex
            THEN selectNextLiveStatementIndex(updatedSessionWithResponse)
            ELSE s.liveStatementIndex]

\* case 'RESPOND_TO_STATEMENT' for any statementIndex: the error it throws
\* ("" when it returns) and the session its caller is left with. An index the
\* guard let through without being an index of the array would make
\* isStatementResolved read a property of undefined.
sessionReducerRespond(s, statementIndex, userId, response) ==
    IF ~ValidStatementIndex(s, statementIndex)
    THEN [error |-> "Invalid statement index", session |-> s]
    ELSE IF statementIndex \notin Indices(s)
    THEN [error |-> "TypeError", session |-> s]
    ELSE [error |-> "", session |-> ReduceRespond(s, statementIndex, userId, response)]

\* UpdateStatement with a fault: resolved statements are updated like the others
UpdateStatementTouchesResolved(statement, targetUserId, updateAction) ==
    IF updateAction = "add"
    THEN IF ~Includes(statement.present, targetUserId)
         THEN [statement EXCEPT !.present = Append(@, targetUserId)]
         ELSE statement
    ELSE IF statement.createdBy = targetUserId THEN statement
    ELSE [statement EXCEPT
            !.present = Without(@, targetUserId),
            !.responses = [u \in DOMAIN @ \ {targetUserId} |-> @[u]]]

\* UpdateStatement with a fault: the creator is removed like anyone else
UpdateStatementRemovesCreator(statement, targetUserId, updateAction) ==
    IF isStatementResolved(statement) THEN statement
    ELSE IF updateAction = "add"
    THEN IF ~Includes(statement.present, targetUserId)
         THEN [statement EXCEPT !.present = Append(@, targetUserId)]
         ELSE statement
    ELSE [statement EXCEPT
            !.present = Without(@, targetUserId),
            !.responses = [u \in DOMAIN @ \ {targetUserId} |-> @[u]]]

\* the map callback of case 'UPDATE_UNRESOLVED_STATEMENTS'
UpdateStatement(statement, targetUserId, updateAction) ==
    IF isStatementResolved(statement) THEN statement
    ELSE IF updateAction = "add"
    THEN IF ~Includes(statement.present, targetUserId)
         THEN [statement EXCEPT !.present = Append(@, targetUserId)]
         ELSE statement
    ELSE IF statement.createdBy = targetUserId THEN statement
    ELSE [statement EXCEPT
            !.present = Without(@, targetUserId),
            !.responses = [u \in DOMAIN @ \ {targetUserId} |-> @[u]]]

\* ReduceUpdateUnresolved with a fault: a live statement stays live when the
\* update resolves it
ReduceUpdateUnresolvedKeepsLive(s, targetUserId, updateAction) ==
    LET updatedSessionWithUserChanges ==
            [s EXCEPT !.statements =
                [k \in DOMAIN @ |-> UpdateStatement(@[k], targetUserId, updateAction)]]
    IN  [updatedSessionWithUserChanges EXCEPT !.liveStatementIndex =
            IF s.liveStatementIndex = Null
            THEN selectNextLiveStatementIndex(updatedSessionWithUserChanges)
            ELSE s.liveStatementIndex]

\* case 'UPDATE_UNRESOLVED_STATEMENTS'
ReduceUpdateUnresolved(s, targetUserId, updateAction) ==
    LET updatedSessionWithUserChanges ==
            [s EXCEPT !.statements =
                [k \in DOMAIN @ |-> UpdateStatement(@[k], targetUserId, updateAction)]]
        needsNewLiveStatement ==
            /\ s.liveStatementIndex # Null
            /\ s.liveStatementIndex < Len(s.statements)
            /\ isStatementResolved(
                  updatedSessionWithUserChanges.statements[s.liveStatementIndex + 1])
    IN  [updatedSessionWithUserChanges EXCEPT !.liveStatementIndex =
            IF needsNewLiveStatement \/ s.liveStatementIndex = Null
            THEN selectNextLiveStatementIndex(updatedSessionWithUserChanges)
            ELSE s.liveStatementIndex]

(***************************************************************************)
(* The reducer on its own: every sequence of actions from the initial      *)
(* session.                                                                *)
(***************************************************************************)
PresentLists == SeqsUpTo(Users, MaxPresent)

\* no vote recorded; on says whether this run records votes at all
NoVote(on) ==
    [on |-> on, set |-> FALSE, statementIndex |-> Null, userId |-> "", response |-> FALSE]

\* nothing logged; on says whether this run keeps the log at all. kind, userId,
\* broadcast and error describe the last event: what it was, whose, whether it
\* broadcast a session_state and the error it ended with. lastLive is the last
\* non-null liveStatementIndex of the reducer run; stale holds the ids of the
\* armed timers whose participant has connected since they were armed; raced
\* holds the participants who connected while their removal was suspended;
\* sent holds, for each open connection in the order of connections, the
\* session of the last session_state message sent to it.
NoLog(on) ==
    [on |-> on, kind |-> "", userId |-> "", broadcast |-> FALSE, error |-> "",
     lastLive |-> Null, stale |-> {}, raced |-> {}, sent |-> <<>>]

ReducerLog(kind, userId, error) ==
    log' = IF log.on
           THEN [log EXCEPT !.kind = kind, !.userId = userId, !.error = error,
                            !.lastLive = IF session'.liveStatementIndex # Null
                                         THEN session'.liveStatementIndex
                                         ELSE @]
           ELSE log

ReducerInit ==
    /\ session = initializeSession
    /\ sessionState = <<>>
    /\ connections = <<>>
    /\ pendingRemovals = [u \in Users |-> 0]
    /\ timers = {}
    /\ nextTimerId = 1
    /\ handlers = <<>>
    /\ received = Budget(MaxConnects, MaxStatements, MaxVotes)
    /\ lastVote = NoVote(FALSE)
    /\ log = NoLog(FALSE)

AddStatement(text, createdBy, presentUsers) ==
    /\ Len(session.statements) < received.max.add
    /\ session' = ReduceAddStatement(session, text, createdBy, presentUsers)
    /\ ReducerLog("add", createdBy, "")
    /\ UNCHANGED roomVars

\* a throw leaves the caller with the session it had
Respond(statementIndex, userId, response) ==
    LET result == sessionReducerRespond(session, statementIndex, userId, response)
    IN  /\ session' = result.session
        /\ ReducerLog("respond", userId, result.error)
        /\ UNCHANGED roomVars

UpdatePresence(userId, updateAction) ==
    /\ session' = ReduceUpdateUnresolved(session, userId, updateAction)
    /\ ReducerLog(updateAction, userId, "")
    /\ UNCHANGED roomVars

ReducerNext ==
    \/ \E text \in ReducerTexts, createdBy \in Users, presentUsers \in PresentLists :
          AddStatement(text, createdBy, presentUsers)
    \/ \E statementIndex \in -1..MaxStatements, userId \in Users, response \in BOOLEAN :
          Respond(statementIndex, userId, response)
    \/ \E userId \in Users, updateAction \in {"add", "remove"} :
          UpdatePresence(userId, updateAction)

SpecReducer == ReducerInit /\ [][ReducerNext]_vars

\* the same reducer runs, with the log switched on
ReducerInitLog ==
    /\ session = initializeSession
    /\ sessionState = <<>>
    /\ connections = <<>>
    /\ pendingRemovals = [u \in Users |-> 0]
    /\ timers = {}
    /\ nextTimerId = 1
    /\ handlers = <<>>
    /\ received = Budget(MaxConnects, MaxStatements, MaxVotes)
    /\ lastVote = NoVote(FALSE)
    /\ log = NoLog(TRUE)

SpecReducerLog == ReducerInitLog /\ [][ReducerNext]_vars

\* the session a room holds after u1, alone in the room, added "a": the
\* statement is resolved and handleStatementRatified put it in ratifiedOrder
SessionWithRatified ==
    [statements |-> <<[text |-> "a", createdBy |-> "u1", present |-> <<"u1">>,
                       responses |-> [u \in {"u1"} |-> TRUE]]>>,
     liveStatementIndex |-> Null,
     ratifiedOrder |-> <<0>>]

\* the reducer runs with the log on, from the initial session or from a
\* session that has a ratified statement in ratifiedOrder
ReducerInitRatified ==
    /\ session \in {initializeSession, SessionWithRatified}
    /\ sessionState = <<>>
    /\ connections = <<>>
    /\ pendingRemovals = [u \in Users |-> 0]
    /\ timers = {}
    /\ nextTimerId = 1
    /\ handlers = <<>>
    /\ received = Budget(MaxConnects, MaxStatements, MaxVotes)
    /\ lastVote = NoVote(FALSE)
    /\ log = NoLog(TRUE)

SpecReducerRatified == ReducerInitRatified /\ [][ReducerNext]_vars

\* the session a room holds after u1 added "a" alone, u2 connected and u1
\* added "a" again: statement 0 is ratified, statement 1 is live and waits
\* for u2
SessionWithLive ==
    [statements |-> <<[text |-> "a", createdBy |-> "u1", present |-> <<"u1">>,
                       responses |-> [u \in {"u1"} |-> TRUE]],
                      [text |-> "a", createdBy |-> "u1", present |-> <<"u1", "u2">>,
                       responses |-> [u \in {"u1"} |-> TRUE]]>>,
     liveStatementIndex |-> 1,
     ratifiedOrder |-> <<0>>]

\* the reducer runs with the log on from that session, up to
\* StickyStatements statements
ReducerInitSticky ==
    /\ session = SessionWithLive
    /\ sessionState = <<>>
    /\ connections = <<>>
    /\ pendingRemovals = [u \in Users |-> 0]
    /\ timers = {}
    /\ nextTimerId = 1
    /\ handlers = <<>>
    /\ received = Budget(MaxConnects, StickyStatements, MaxVotes)
    /\ lastVote = NoVote(FALSE)
    /\ log = NoLog(TRUE)

SpecReducerSticky == ReducerInitSticky /\ [][ReducerNext]_vars

(***************************************************************************)
(* The scheduler on its own: selectNextLiveStatementIndex applied to       *)
(* sessions of up to MaxScheduled statements, each by any creator, with    *)
(* one or two present participants and any set of respondents. The reducer *)
(* produces every one of them by AddStatement and Respond.                 *)
(***************************************************************************)
ScheduledStatements ==
    {[text |-> "a", createdBy |-> createdBy, present |-> present,
      responses |-> [u \in respondents |-> TRUE]] :
        createdBy \in Users, present \in {<<"u1">>, <<"u1", "u2">>},
        respondents \in SUBSET Users}

SchedulerInit ==
    /\ session \in {[statements |-> statements, liveStatementIndex |-> Null,
                      ratifiedOrder |-> <<>>] :
                         statements \in SeqsUpTo(ScheduledStatements, MaxScheduled)}
    /\ sessionState = <<>>
    /\ connections = <<>>
    /\ pendingRemovals = [u \in Users |-> 0]
    /\ timers = {}
    /\ nextTimerId = 1
    /\ handlers = <<>>
    /\ received = Budget(MaxConnects, MaxStatements, MaxVotes)
    /\ lastVote = NoVote(FALSE)
    /\ log = NoLog(FALSE)

\* liveStatementIndex: selectNextLiveStatementIndex(session), as the reducer
\* sets it when no statement is live
SelectLive ==
    /\ session.liveStatementIndex = Null
    /\ session' = [session EXCEPT
                      !.liveStatementIndex = selectNextLiveStatementIndex(session)]
    /\ UNCHANGED <<roomVars, log>>

SpecScheduler == SchedulerInit /\ [][SelectLive]_vars

(***************************************************************************)
(* src/lib/insertStatement.ts                                              *)
(***************************************************************************)
\* What the await of insertStatement can produce once the gateway was called:
\* a position (any type, any index), null, or a rejection ("fail").
InsertResults ==
    [type : {"before", "after"}, index : -1..MaxStatements]
        \cup {[type |-> "null", index |-> 0], [type |-> "fail", index |-> 0]}

NullPosition == [type |-> "null", index |-> 0]

\* applyInsertPosition with a fault: After splices at index, as Before does
applyInsertPositionAfterAtIndex(currentOrder, newStatementIndex, insertPosition) ==
    IF Len(currentOrder) = 0 \/ insertPosition.type = "null"
    THEN Append(currentOrder, newStatementIndex)
    ELSE IF insertPosition.index < 0 \/ insertPosition.index >= Len(currentOrder)
    THEN Append(currentOrder, newStatementIndex)
    ELSE Splice(currentOrder, insertPosition.index, newStatementIndex)

applyInsertPosition(currentOrder, newStatementIndex, insertPosition) ==
    IF Len(currentOrder) = 0 \/ insertPosition.type = "null"
    THEN Append(currentOrder, newStatementIndex)
    ELSE IF insertPosition.index < 0 \/ insertPosition.index >= Len(currentOrder)
    THEN Append(currentOrder, newStatementIndex)
    ELSE IF insertPosition.type = "before"
    THEN Splice(currentOrder, insertPosition.index, newStatementIndex)
    ELSE Splice(currentOrder, insertPosition.index + 1, newStatementIndex)

(***************************************************************************)
(* src/party/index.ts: handleStatementRatified                             *)
(***************************************************************************)
\* currentRatifiedTexts is non-empty: only then does insertStatement call the
\* gateway, so only then is the handler suspended at the await. With no
\* ratified text insertStatement returns null at once and the caller runs on
\* in the same task.
CallsInsertionService(s) ==
    \E k \in 1..Len(s.ratifiedOrder) :
        s.ratifiedOrder[k] >= 0 /\ s.ratifiedOrder[k] < Len(s.statements)

\* what the catch of handleStatementRatified writes to the server's console
PositionError == "Error determining statement position"

\* StatementRatified with a fault: the catch returns the session as it was
StatementRatifiedFailDrops(s, statementIndex, result) ==
    IF result.type = "fail"
    THEN s
    ELSE [s EXCEPT !.ratifiedOrder = applyInsertPosition(@, statementIndex, result)]

\* the session handleStatementRatified returns for the service's result
StatementRatified(s, statementIndex, result) ==
    IF result.type = "fail"
    THEN [s EXCEPT !.ratifiedOrder = Append(@, statementIndex)]
    ELSE [s EXCEPT !.ratifiedOrder = applyInsertPosition(@, statementIndex, result)]

(***************************************************************************)
(* Suspended handlers. Every frame has the same fields; the ones a handler *)
(* does not use at its await hold the values below.                        *)
(***************************************************************************)
Frame(kind, pc, base, s, text, userId, presentUsers, statementIndex, rest) ==
    [kind |-> kind, pc |-> pc, base |-> base, session |-> s, text |-> text,
     userId |-> userId, presentUsers |-> presentUsers,
     statementIndex |-> statementIndex, rest |-> rest]

Cur == sessionState[1]

\* this.sessionState = s (and the broadcast that follows it)
Save(s) == sessionState' = <<s>>

NoteVote(statementIndex, userId, response) ==
    lastVote' = IF lastVote.on
                THEN [on |-> TRUE, set |-> TRUE, statementIndex |-> statementIndex,
                      userId |-> userId, response |-> response]
                ELSE lastVote

\* a removal of userId ends the life of userId's recorded vote
ForgetVoteOf(userId) ==
    lastVote' = IF lastVote.set /\ lastVote.userId = userId THEN NoVote(TRUE) ELSE lastVote

\* Broadcast with a fault: the first connection is passed over
BroadcastSkipsFirst(open) ==
    [k \in 1..Len(open) |-> IF k = 1 /\ k <= Len(log.sent)
                            THEN log.sent[k]
                            ELSE sessionState'[1]]

\* this.broadcast(session_state): every open connection receives the session
\* just written
Broadcast(open) == [k \in 1..Len(open) |-> sessionState'[1]]

\* the log after a room event, with stale and raced as the event leaves them.
\* A broadcast reaches every open connection; onConnect then sends the
\* session to the new connection, the last of connections.
RoomLog(kind, userId, broadcast, error, stale, raced) ==
    log' = IF log.on
           THEN [log EXCEPT !.kind = kind, !.userId = userId, !.broadcast = broadcast,
                            !.error = error, !.stale = stale, !.raced = raced,
                            !.sent = IF broadcast
                                     THEN Broadcast(IF kind = "connect"
                                                    THEN connections' ELSE connections)
                                     ELSE IF kind = "connect"
                                     THEN Append(@, sessionState'[1])
                                     ELSE @]
           ELSE log

\* the log after onClose of connection c: the connection receives no more
CloseLog(c) ==
    log' = IF log.on
           THEN [log EXCEPT !.kind = "close", !.userId = connections[c],
                            !.broadcast = FALSE, !.error = "",
                            !.raced = @ \ {connections[c]},
                            !.sent = RemoveAt(@, c)]
           ELSE log

Init ==
    /\ session = initializeSession
    /\ sessionState = <<>>
    /\ connections = <<>>
    /\ pendingRemovals = [u \in Users |-> 0]
    /\ timers = {}
    /\ nextTimerId = 1
    /\ handlers = <<>>
    /\ received = Budget(MaxConnects, MaxStatements, MaxVotes)
    /\ lastVote = NoVote(FALSE)
    /\ log = NoLog(FALSE)

(***************************************************************************)
(* onConnect                                                               *)
(***************************************************************************)
\* ConnectChanges with a fault: the comparison of the two sessions is left out
ConnectChangesAlways(s, updatedSession) == Len(s.statements) >= 0

\* session.statements.length > 0, and the reducer's result serialises
\* differently from the session
ConnectChanges(s, updatedSession) == Len(s.statements) > 0 /\ updatedSession # s

OnConnect(id) ==
    /\ received.connect < received.max.connect
    /\ received' = [received EXCEPT !.connect = @ + 1]
    /\ connections' = Append(connections, id)
    /\ IF pendingRemovals[id] # 0
       THEN /\ timers' = {t \in timers : t.id # pendingRemovals[id]}
            /\ pendingRemovals' = [pendingRemovals EXCEPT ![id] = 0]
       ELSE UNCHANGED <<timers, pendingRemovals>>
    /\ LET s == IF sessionState = <<>> THEN initializeSession ELSE Cur
           updatedSession == ReduceUpdateUnresolved(s, id, "add")
           changed == ConnectChanges(s, updatedSession)
       IN  /\ IF changed THEN Save(updatedSession) ELSE Save(s)
           /\ RoomLog("connect", id, changed, "",
                      {t.id : t \in {x \in timers' : x.id \in log.stale \/ x.userId = id}},
                      IF \E h \in 1..Len(handlers) :
                            handlers[h].kind = "remove" /\ handlers[h].userId = id
                      THEN log.raced \cup {id}
                      ELSE log.raced)
    /\ UNCHANGED <<session, nextTimerId, handlers, lastVote>>

(***************************************************************************)
(* onClose and the timer it arms                                           *)
(***************************************************************************)
OnClose(c) ==
    /\ c \in 1..Len(connections)
    /\ nextTimerId <= MaxTimers
    /\ connections' = RemoveAt(connections, c)
    /\ timers' = timers \cup {[id |-> nextTimerId, userId |-> connections[c]]}
    /\ pendingRemovals' = [pendingRemovals EXCEPT ![connections[c]] = nextTimerId]
    /\ nextTimerId' = nextTimerId + 1
    /\ CloseLog(c)
    /\ UNCHANGED <<session, sessionState, handlers, received, lastVote>>

\* RatifiedByRemoval with a fault: alreadyInOrder is not consulted
RatifiedByRemovalNoOrderCheck(s, stmtIndex) ==
    /\ isStatementResolved(s.statements[stmtIndex + 1])
    /\ allAgreed(s.statements[stmtIndex + 1])

\* RatifiedByRemoval with a fault: allAgreed is not consulted
RatifiedByRemovalAnyResponse(s, stmtIndex) ==
    /\ isStatementResolved(s.statements[stmtIndex + 1])
    /\ ~Includes(s.ratifiedOrder, stmtIndex)

\* isNowResolved && allAgreed && !alreadyInOrder
RatifiedByRemoval(s, stmtIndex) ==
    /\ isStatementResolved(s.statements[stmtIndex + 1])
    /\ allAgreed(s.statements[stmtIndex + 1])
    /\ ~Includes(s.ratifiedOrder, stmtIndex)

\* the for loop of removeUserFromStatements from statement rest[1] on, run
\* until it ends or reaches an await that suspends
RECURSIVE RemovalLoop(_, _)
RemovalLoop(s, rest) ==
    IF rest = <<>>
    THEN [suspended |-> FALSE, session |-> s, statementIndex |-> Null, rest |-> <<>>]
    ELSE LET stmtIndex == Head(rest)
         IN  IF RatifiedByRemoval(s, stmtIndex)
             THEN IF CallsInsertionService(s)
                  THEN [suspended |-> TRUE, session |-> s,
                        statementIndex |-> stmtIndex, rest |-> Tail(rest)]
                  ELSE RemovalLoop(StatementRatified(s, stmtIndex, NullPosition), Tail(rest))
             ELSE RemovalLoop(s, Tail(rest))

\* the end of removeUserFromStatements and of the timer callback
FinishRemoval(base, updatedSession, userId) ==
    /\ IF updatedSession # base THEN Save(updatedSession) ELSE UNCHANGED sessionState
    /\ pendingRemovals' = [pendingRemovals EXCEPT ![userId] = 0]

\* setTimeout callback: removeUserFromStatements up to its end or first await.
\* All timers have the same delay, so the oldest armed timer runs first.
TimerFires ==
    /\ timers # {}
    /\ LET t == CHOOSE x \in timers : \A y \in timers : x.id <= y.id
           userId == t.userId
       IN  /\ timers' = timers \ {t}
           /\ ForgetVoteOf(userId)
           /\ IF sessionState = <<>>
              THEN /\ pendingRemovals' = [pendingRemovals EXCEPT ![userId] = 0]
                   /\ RoomLog("timer", userId, FALSE, "",
                              log.stale \ {t.id}, log.raced \ {userId})
                   /\ UNCHANGED <<sessionState, handlers>>
              ELSE LET unresolvedBefore == Ascending(getUnresolvedStatements(Cur))
                       updatedSession == ReduceUpdateUnresolved(Cur, userId, "remove")
                       run == RemovalLoop(updatedSession, unresolvedBefore)
                   IN  IF run.suspended
                       THEN /\ Len(handlers) < MaxInflight
                            /\ handlers' = Append(handlers,
                                  Frame("remove", "insert", Cur, run.session, "",
                                        userId, <<>>, run.statementIndex, run.rest))
                            /\ RoomLog("timer", userId, FALSE, "",
                                       log.stale \ {t.id}, log.raced \ {userId})
                            /\ UNCHANGED <<sessionState, pendingRemovals>>
                       ELSE /\ FinishRemoval(Cur, run.session, userId)
                            /\ RoomLog("timer", userId, run.session # Cur, "",
                                       log.stale \ {t.id}, log.raced \ {userId})
                            /\ UNCHANGED handlers
    /\ UNCHANGED <<session, connections, nextTimerId, received>>

(***************************************************************************)
(* onMessage: add_statement                                                *)
(***************************************************************************)
\* what the await of generateText inside generateNegation can produce: the
\* service's sentence, or a rejection
NegationResults == {"sentence", "fail"}

\* src/lib/generateNegation.ts: the service's negative_sentence (some
\* sentence made from the statement), or the fallback of the catch
generateNegation(statement, result) ==
    IF result = "fail" THEN "Not: " \o statement ELSE "It is false that " \o statement

\* sessionReducer for the ADD_STATEMENT action handleAddStatement dispatches:
\* the case reads text, createdBy and presentUsers of the payload
sessionReducerAddStatement(s, payload) ==
    ReduceAddStatement(s, payload.text, payload.createdBy, payload.presentUsers)

\* handleAddStatement up to the await of generateNegation
AddStatementReceived(text, userId) ==
    /\ connections # <<>>
    /\ Len(handlers) < MaxInflight
    /\ received.add < received.max.add
    /\ received' = [received EXCEPT !.add = @ + 1]
    /\ LET s == IF sessionState = <<>> THEN initializeSession ELSE Cur
       IN  /\ Save(s)
           /\ handlers' = Append(handlers,
                 Frame("add", "negation", initializeSession, s, text, userId,
                       connections, Null, <<>>))
    /\ RoomLog("add_statement", userId, FALSE, "", log.stale, log.raced)
    /\ UNCHANGED <<session, connections, pendingRemovals, timers, nextTimerId, lastVote>>

\* handleAddStatement from the return of generateNegation to its end or to
\* the await inside handleStatementRatified; negationFirst is Math.random() > 0.5.
\* The handler's locals are bound to their values one after the other.
NegationReturns(h, result, negationFirst) ==
    /\ h \in 1..Len(handlers)
    /\ handlers[h].kind = "add" /\ handlers[h].pc = "negation"
    /\ \E f \in {handlers[h]} :
       \E updatedSession \in
             {sessionReducerAddStatement(f.session,
                 [text |-> f.text, negation |-> generateNegation(f.text, result),
                  negationFirst |-> negationFirst, createdBy |-> f.userId,
                  presentUsers |-> f.presentUsers])} :
       \E statementIndex \in {Len(updatedSession.statements) - 1} :
       \E finalSession \in {ReduceRespond(updatedSession, statementIndex, f.userId, TRUE)} :
       \E statement \in {finalSession.statements[statementIndex + 1]} :
           IF isStatementResolved(statement) /\ allAgreed(statement)
           THEN IF CallsInsertionService(finalSession)
                THEN /\ handlers' = [handlers EXCEPT ![h] =
                           Frame("add", "insert", initializeSession, finalSession, "",
                                 "", <<>>, statementIndex, <<>>)]
                     /\ RoomLog("negation", f.userId, FALSE, "", log.stale, log.raced)
                     /\ UNCHANGED sessionState
                ELSE /\ Save(StatementRatified(finalSession, statementIndex, NullPosition))
                     /\ RoomLog("negation", f.userId, TRUE, "", log.stale, log.raced)
                     /\ handlers' = RemoveAt(handlers, h)
           ELSE /\ Save(finalSession)
                /\ RoomLog("negation", f.userId, TRUE, "", log.stale, log.raced)
                /\ handlers' = RemoveAt(handlers, h)
    /\ UNCHANGED <<session, connections, pendingRemovals, timers, nextTimerId,
                   received, lastVote>>

(***************************************************************************)
(* onMessage: vote_response                                                *)
(***************************************************************************)
\* handleVoteResponse to its end or to the await inside handleStatementRatified;
\* an invalid index throws in the reducer and onMessage catches it
VoteResponse(statementIndex, userId, response) ==
    /\ connections # <<>>
    /\ sessionState # <<>>
    /\ received.vote < received.max.vote
    /\ received' = [received EXCEPT !.vote = @ + 1]
    /\ IF ~ValidStatementIndex(Cur, statementIndex)
       THEN /\ RoomLog("vote_response", userId, FALSE, "Invalid statement index",
                       log.stale, log.raced)
            /\ UNCHANGED <<sessionState, handlers, lastVote>>
       ELSE LET wasResolved == isStatementResolved(Cur.statements[statementIndex + 1])
                updatedSession == ReduceRespond(Cur, statementIndex, userId, response)
                statementAfterVote == updatedSession.statements[statementIndex + 1]
            IN  /\ NoteVote(statementIndex, userId, response)
                /\ IF /\ ~wasResolved
                      /\ isStatementResolved(statementAfterVote)
                      /\ allAgreed(statementAfterVote)
                   THEN IF CallsInsertionService(updatedSession)
                        THEN /\ Len(handlers) < MaxInflight
                             /\ handlers' = Append(handlers,
                                   Frame("vote", "insert", initializeSession, updatedSession,
                                         "", "", <<>>, statementIndex, <<>>))
                             /\ RoomLog("vote_response", userId, FALSE, "",
                                        log.stale, log.raced)
                             /\ UNCHANGED sessionState
                        ELSE /\ Save(StatementRatified(updatedSession, statementIndex,
                                                       NullPosition))
                             /\ RoomLog("vote_response", userId, TRUE, "",
                                        log.stale, log.raced)
                             /\ UNCHANGED handlers
                   ELSE /\ Save(updatedSession)
                        /\ RoomLog("vote_response", userId, TRUE, "", log.stale, log.raced)
                        /\ UNCHANGED handlers
    /\ UNCHANGED <<session, connections, pendingRemovals, timers, nextTimerId>>

(***************************************************************************)
(* The return of the await inside handleStatementRatified                  *)
(***************************************************************************)
InsertionReturns(h, result) ==
    /\ h \in 1..Len(handlers)
    /\ handlers[h].pc = "insert"
    /\ \E f \in {handlers[h]} :
       \E ratified \in {StatementRatified(f.session, f.statementIndex, result)} :
       \E error \in {IF result.type = "fail" THEN PositionError ELSE ""} :
           IF f.kind = "remove"
           THEN \E run \in {RemovalLoop(ratified, f.rest)} :
                    IF run.suspended
                    THEN /\ handlers' = [handlers EXCEPT ![h] =
                               Frame("remove", "insert", f.base, run.session, "",
                                     f.userId, <<>>, run.statementIndex, run.rest)]
                         /\ RoomLog("insertion", f.userId, FALSE, error, log.stale, log.raced)
                         /\ UNCHANGED <<sessionState, pendingRemovals, lastVote>>
                    ELSE /\ handlers' = RemoveAt(handlers, h)
                         /\ FinishRemoval(f.base, run.session, f.userId)
                         /\ RoomLog("insertion", f.userId, run.session # f.base, error,
                                    log.stale, log.raced)
                         /\ ForgetVoteOf(f.userId)
           ELSE /\ Save(ratified)
                /\ RoomLog("insertion", f.userId, TRUE, error, log.stale, log.raced)
                /\ handlers' = RemoveAt(handlers, h)
                /\ UNCHANGED <<pendingRemovals, lastVote>>
    /\ UNCHANGED <<session, connections, timers, nextTimerId, received>>

(***************************************************************************)
(* onMessage: a message JSON.parse rejects, or one of an unknown type      *)
(***************************************************************************)
\* OtherMessage with a fault: the handler closes the sender's connection
OtherMessageClosesConnection ==
    /\ connections # <<>>
    /\ connections' = Tail(connections)
    /\ RoomLog("other", "", FALSE, "ignored", log.stale, log.raced)
    /\ UNCHANGED <<session, sessionState, pendingRemovals, timers,
                   nextTimerId, handlers, received, lastVote>>

OtherMessage ==
    /\ connections # <<>>
    /\ RoomLog("other", "", FALSE, "ignored", log.stale, log.raced)
    /\ UNCHANGED <<session, sessionState, connections, pendingRemovals, timers,
                   nextTimerId, handlers, received, lastVote>>

Next ==
    \/ \E id \in Users : OnConnect(id)
    \/ \E c \in 1..MaxConnects : OnClose(c)
    \/ TimerFires
    \/ \E text \in Texts, userId \in Users : AddStatementReceived(text, userId)
    \/ \E h \in 1..MaxInflight, result \in NegationResults, negationFirst \in BOOLEAN :
          NegationReturns(h, result, negationFirst)
    \/ \E statementIndex \in -1..MaxStatements, userId \in Users, response \in BOOLEAN :
          VoteResponse(statementIndex, userId, response)
    \/ \E h \in 1..MaxInflight, result \in InsertResults : InsertionReturns(h, result)
    \/ OtherMessage

Spec == Init /\ [][Next]_vars

\* the same room when every call of the negation service and of the insertion
\* service returns or fails in the end: a suspended handler is resumed
ServiceReturns ==
    \/ \E h \in 1..MaxInflight, result \in NegationResults, negationFirst \in BOOLEAN :
          NegationReturns(h, result, negationFirst)
    \/ \E h \in 1..MaxInflight, result \in InsertResults : InsertionReturns(h, result)

SpecFair == Init /\ [][Next]_vars /\ WF_vars(ServiceReturns)

\* the same room, with the history of applied votes switched on
InitVotes ==
    /\ session = initializeSession
    /\ sessionState = <<>>
    /\ connections = <<>>
    /\ pendingRemovals = [u \in Users |-> 0]
    /\ timers = {}
    /\ nextTimerId = 1
    /\ handlers = <<>>
    /\ received = Budget(MaxConnects, MaxStatements, MaxVotes)
    /\ lastVote = NoVote(TRUE)
    /\ log = NoLog(FALSE)

SpecVotes == InitVotes /\ [][Next]_vars

\* the session of a room after u1 connected twice under the same id (two
\* tabs) and added "a": the statement lists u1 twice and stays unresolved
RoomTwoTabs ==
    LET updatedSession == ReduceAddStatement(initializeSession, "a", "u1", <<"u1", "u1">>)
    IN  ReduceRespond(updatedSession, 0, "u1", TRUE)

\* the same room with the log switched on, either new or as the two connects
\* and the add_statement above leave it, with one more connect to come
InitLog ==
    /\ session = initializeSession
    /\ pendingRemovals = [u \in Users |-> 0]
    /\ timers = {}
    /\ nextTimerId = 1
    /\ handlers = <<>>
    /\ lastVote = NoVote(FALSE)
    /\ \/ /\ sessionState = <<>>
          /\ connections = <<>>
          /\ received = Budget(LogConnects, LogAdds, LogVotes)
          /\ log = NoLog(TRUE)
       \/ /\ sessionState = <<RoomTwoTabs>>
          /\ connections = <<"u1", "u1">>
          /\ received = [connect |-> 2, add |-> 1, vote |-> 0,
                         max |-> [connect |-> LogConnects + 1, add |-> LogAdds,
                                  vote |-> LogVotes]]
          /\ log = [NoLog(TRUE) EXCEPT !.sent = <<RoomTwoTabs, RoomTwoTabs>>]

SpecLog == InitLog /\ [][Next]_vars

(***************************************************************************)
(* A room in use. u1 connected and added "a", ratified at once; u2          *)
(* connected and u1 added "b"; u1 connected a second time under the same   *)
(* id and added "a" again. Statement 1 waits for u2, statement 2 lists u1  *)
(* twice.                                                                  *)
(***************************************************************************)
AddedBy(s, text, userId, presentUsers) ==
    LET updatedSession == ReduceAddStatement(s, text, userId, presentUsers)
    IN  ReduceRespond(updatedSession, Len(updatedSession.statements) - 1, userId, TRUE)

RoomInUse ==
    LET first == StatementRatified(AddedBy(initializeSession, "a", "u1", <<"u1">>),
                                   0, NullPosition)
        second == AddedBy(ReduceUpdateUnresolved(first, "u2", "add"),
                          "b", "u1", <<"u1", "u2">>)
    IN  AddedBy(ReduceUpdateUnresolved(second, "u1", "add"),
                "a", "u1", <<"u1", "u2", "u1">>)

InitInUse ==
    /\ session = initializeSession
    /\ sessionState = <<RoomInUse>>
    /\ connections = <<"u1", "u2", "u1">>
    /\ pendingRemovals = [u \in Users |-> 0]
    /\ timers = {}
    /\ nextTimerId = 1
    /\ handlers = <<>>
    /\ received = [connect |-> 3, add |-> 3, vote |-> 0,
                   max |-> [connect |-> 3 + MoreConnects, add |-> 3 + MoreAdds,
                            vote |-> MoreVotes]]
    /\ lastVote = NoVote(FALSE)
    /\ log = [NoLog(TRUE) EXCEPT !.sent = <<RoomInUse, RoomInUse, RoomInUse>>]

SpecInUse == InitInUse /\ [][Next]_vars

(***************************************************************************)
(* Properties                                                              *)
(***************************************************************************)
Quiescent == handlers = <<>>

Ratified(statement) == isStatementResolved(statement) /\ allAgreed(statement)

\* C1: once no handler is in flight, the last vote_response the server applied
\* (and whose voter was not removed since) is the voter's response in the
\* room's session.
NoAcceptedVoteLost ==
    (Quiescent /\ lastVote.set) =>
        /\ sessionState # <<>>
        /\ ValidStatementIndex(Cur, lastVote.statementIndex)
        /\ lastVote.userId \in DOMAIN Cur.statements[lastVote.statementIndex + 1].responses
        /\ Cur.statements[lastVote.statementIndex + 1].responses[lastVote.userId]
              = lastVote.response

\* C2: across every step of the room, the session keeps each statement it
\* holds at the same index with the same text and createdBy, and never holds
\* fewer statements.
StatementsAppendOnly ==
    [][sessionState # <<>> =>
        /\ sessionState' # <<>>
        /\ Len(Cur'.statements) >= Len(Cur.statements)
        /\ \A k \in 1..Len(Cur.statements) :
              /\ Cur'.statements[k].text = Cur.statements[k].text
              /\ Cur'.statements[k].createdBy = Cur.statements[k].createdBy]_vars

\* a step in which a connect, a message or a timer expiry starts its handler
HandlerStarts ==
    \/ \E id \in Users : OnConnect(id)
    \/ TimerFires
    \/ \E text \in Texts, userId \in Users : AddStatementReceived(text, userId)
    \/ \E statementIndex \in -1..MaxStatements, userId \in Users, response \in BOOLEAN :
          VoteResponse(statementIndex, userId, response)

\* C3: no handler starts while another handler of the room is suspended
\* between its read of the session and its write.
SingleWriter == [][~Quiescent => ~HandlerStarts]_vars

\* C4: a non-null liveStatementIndex is a valid index of an unresolved
\* statement, in every session the reducer can produce.
LiveIsUnresolved ==
    session.liveStatementIndex # Null =>
        /\ session.liveStatementIndex \in Indices(session)
        /\ ~isStatementResolved(session.statements[session.liveStatementIndex + 1])

\* C4 witness: the first statement is resolved and the scheduler has moved
\* the live index on to the second.
LiveMovedOn ==
    /\ Len(session.statements) = 2
    /\ session.liveStatementIndex = 1
    /\ isStatementResolved(session.statements[1])
    /\ session.statements[1].responses # <<>>

\* C5: liveStatementIndex is null only when no statement is unresolved, in
\* every session the reducer can produce.
NullLiveMeansAllResolved ==
    session.liveStatementIndex = Null => getUnresolvedStatements(session) = {}

\* C6: ratifiedOrder holds only valid statement indices and none twice, in
\* every state of the room.
RatifiedOrderValidAndUnique ==
    sessionState # <<>> =>
        /\ \A k \in 1..Len(Cur.ratifiedOrder) : Cur.ratifiedOrder[k] \in Indices(Cur)
        /\ \A j, k \in 1..Len(Cur.ratifiedOrder) :
              j # k => Cur.ratifiedOrder[j] # Cur.ratifiedOrder[k]

\* C6 witness: two statements were ratified and the insertion service placed
\* the second before the first.
SecondInsertedBeforeFirst ==
    /\ sessionState # <<>>
    /\ Quiescent
    /\ Cur.ratifiedOrder = <<1, 0>>

\* C7: with no handler in flight, every index in ratifiedOrder refers to a
\* statement that is ratified now.
RatifiedOrderOnlyRatified ==
    (sessionState # <<>> /\ Quiescent) =>
        \A k \in 1..Len(Cur.ratifiedOrder) :
            /\ Cur.ratifiedOrder[k] \in Indices(Cur)
            /\ Ratified(Cur.statements[Cur.ratifiedOrder[k] + 1])

\* C8: with no handler in flight, every ratified statement has its index in
\* ratifiedOrder.
EveryRatifiedInOrder ==
    (sessionState # <<>> /\ Quiescent) =>
        \A i \in Indices(Cur) :
            Ratified(Cur.statements[i + 1]) => Includes(Cur.ratifiedOrder, i)

\* C9: a statement is resolved exactly when every member of its present list
\* has a response entry, in every session the reducer can produce.
ResolvedIffAllPresentAnswered ==
    \A i \in Indices(session) :
        LET statement == session.statements[i + 1]
        IN  isStatementResolved(statement) <=>
                \A k \in 1..Len(statement.present) :
                    statement.present[k] \in DOMAIN statement.responses

\* C10: in every state of the room, every statement's createdBy is a member
\* of its present list.
CreatorIsPresent ==
    sessionState # <<>> =>
        \A i \in Indices(Cur) :
            Includes(Cur.statements[i + 1].present, Cur.statements[i + 1].createdBy)

\* C11: a remove of participant u leaves the present list and the responses of
\* every statement u created as they were, however often it is applied, and
\* takes u out of the present list and the responses of every unresolved
\* statement somebody else created.
CreatorPermanence ==
    [][\A u \in Users :
          UpdatePresence(u, "remove") =>
              \A k \in 1..Len(session.statements) :
                  LET before == session.statements[k]
                      after == session'.statements[k]
                  IN  /\ before.createdBy = u =>
                          /\ after.present = before.present
                          /\ after.responses = before.responses
                      /\ (before.createdBy # u /\ ~isStatementResolved(before)) =>
                          /\ ~Includes(after.present, u)
                          /\ u \notin DOMAIN after.responses]_vars

\* C11 witness: the last action removed the creator of an unresolved statement
\* that still lists the creator, the creator's response and somebody else.
CreatorKeptAfterRemove ==
    /\ log.kind = "remove"
    /\ \E k \in 1..Len(session.statements) :
          LET statement == session.statements[k]
          IN  /\ statement.createdBy = log.userId
              /\ ~isStatementResolved(statement)
              /\ Includes(statement.present, log.userId)
              /\ log.userId \in DOMAIN statement.responses
              /\ \E v \in Users \ {log.userId} : Includes(statement.present, v)

\* C12: a grace timer whose participant has connected again since it was
\* armed never fires, so no remove is applied for a disconnect that was
\* followed by a reconnect within the grace period.
ReconnectCancelsRemoval ==
    [][\A t \in timers : t.id \in log.stale => t \in timers']_vars

\* C13: once no handler is in flight, a participant who connected while their
\* removal was suspended is in the present list of every unresolved statement.
RacedParticipantPresent ==
    (Quiescent /\ sessionState # <<>>) =>
        \A u \in log.raced :
            \A i \in getUnresolvedStatements(Cur) :
                Includes(Cur.statements[i + 1].present, u)

\* C14: for every session the reducer can produce, the empty one included, a
\* respond whose statementIndex is not an index of a statement throws
\* 'Invalid statement index' and leaves its caller with the input session.
InvalidRespondFails ==
    \A statementIndex \in -1..MaxStatements, userId \in Users, response \in BOOLEAN :
        statementIndex \notin Indices(session) =>
            LET result == sessionReducerRespond(session, statementIndex, userId, response)
            IN  /\ result.error = "Invalid statement index"
                /\ result.session = session

\* C14 witness: the last action was a respond on the empty session, and it
\* threw.
InvalidRespondOnEmpty ==
    /\ log.kind = "respond"
    /\ log.error = "Invalid statement index"
    /\ session = initializeSession

\* a step that handles a message JSON.parse rejects, a message of unknown
\* type, or a vote_response whose statementIndex is not an index of a statement
RejectedMessage ==
    \/ OtherMessage
    \/ \E statementIndex \in -1..MaxStatements, userId \in Users, response \in BOOLEAN :
          /\ sessionState # <<>>
          /\ statementIndex \notin Indices(Cur)
          /\ VoteResponse(statementIndex, userId, response)

\* C15: a rejected message changes neither the room's session nor anything
\* else a later handler reads (open connections, timers, suspended handlers),
\* and broadcasts nothing.
RejectedMessageIgnored ==
    [][RejectedMessage =>
          /\ UNCHANGED <<sessionState, connections, pendingRemovals, timers, handlers>>
          /\ log'.broadcast = FALSE]_vars

\* C15 witness: the last event was a vote_response that the reducer rejected,
\* in a room whose session holds a statement.
VoteRejected ==
    /\ log.kind = "vote_response"
    /\ log.error = "Invalid statement index"
    /\ sessionState # <<>>
    /\ Len(Cur.statements) > 0
    /\ connections # <<>>

\* participant u is in the present list of every unresolved statement of s
PresentInEveryUnresolved(s, u) ==
    \A i \in getUnresolvedStatements(s) : Includes(s.statements[i + 1].present, u)

\* C16: for every session the reducer can produce, an add of a participant who
\* is already in the present list of every unresolved statement returns a
\* session equal to its input.
AddIsIdempotent ==
    \A u \in Users :
        PresentInEveryUnresolved(session, u) =>
            ReduceUpdateUnresolved(session, u, "add") = session

\* C17: the scheduler returns null when no statement is unresolved, and
\* otherwise the unresolved statement that is least by (number of resolved
\* statements of its creator, index).
SchedulerPicksFairMinimum ==
    LET unresolved == getUnresolvedStatements(session)
        count(i) == resolvedCountByCreator(session, session.statements[i + 1].createdBy)
        picked == selectNextLiveStatementIndex(session)
    IN  IF unresolved = {}
        THEN picked = Null
        ELSE /\ picked \in unresolved
             /\ \A j \in unresolved :
                   \/ count(picked) < count(j)
                   \/ count(picked) = count(j) /\ picked <= j

\* C17 witness: the scheduler made statement 2 live although statement 1 is
\* unresolved, because the creator of statement 1 has a resolved statement.
FairnessDecides ==
    /\ Len(session.statements) = 3
    /\ session.liveStatementIndex = 2
    /\ isStatementResolved(session.statements[1])
    /\ ~isStatementResolved(session.statements[2])
    /\ session.statements[1].createdBy = session.statements[2].createdBy

\* C18: whenever a reducer action starts a new live turn (liveStatementIndex
\* takes a non-null value other than the one it had) for a statement of the
\* creator of the previous live statement, no other creator of a statement has
\* zero resolved statements.
NoTwoTurnsInARow ==
    [][(/\ session'.liveStatementIndex # Null
        /\ session'.liveStatementIndex # session.liveStatementIndex
        /\ log.lastLive # Null) =>
          LET creator == session'.statements[session'.liveStatementIndex + 1].createdBy
              previous == session'.statements[log.lastLive + 1].createdBy
          IN  creator = previous =>
                  ~\E k \in 1..Len(session'.statements) :
                      /\ session'.statements[k].createdBy # creator
                      /\ resolvedCountByCreator(session',
                                                session'.statements[k].createdBy) = 0]_vars

\* C19: at the event after which a statement of the room's session is resolved
\* with all responses true, and was not before, the insertion sub-step has
\* run for it: its index is in ratifiedOrder.
InsertionAtRatification ==
    [][sessionState' # <<>> =>
          LET before == IF sessionState = <<>> THEN initializeSession ELSE Cur
          IN  \A i \in Indices(Cur') :
                  (/\ Ratified(Cur'.statements[i + 1])
                   /\ ~(i \in Indices(before) /\ Ratified(before.statements[i + 1]))) =>
                      Includes(Cur'.ratifiedOrder, i)]_vars

\* newOrder is order with x put in at 0-based position at, nothing else moved
InsertedAt(order, newOrder, x, at) ==
    /\ Len(newOrder) = Len(order) + 1
    /\ at + 1 \in 1..Len(newOrder)
    /\ newOrder[at + 1] = x
    /\ RemoveAt(newOrder, at + 1) = order

\* C20: when the insertion service returns Before or After with an index
\* inside the current ratifiedOrder, the new statement index is at position
\* index (Before) or index + 1 (After) of the new ratifiedOrder, and that is
\* the order the add and vote handlers save.
InsertionLandsAtTarget ==
    [][\A h \in 1..Len(handlers), r \in InsertResults :
          (/\ handlers[h].pc = "insert"
           /\ UNCHANGED <<connections, timers, received>>
           /\ r.type \in {"before", "after"}
           /\ r.index >= 0
           /\ r.index < Len(handlers[h].session.ratifiedOrder)
           /\ InsertionReturns(h, r)) =>
              LET f == handlers[h]
                  ratified == StatementRatified(f.session, f.statementIndex, r)
              IN  /\ InsertedAt(f.session.ratifiedOrder, ratified.ratifiedOrder,
                                f.statementIndex,
                                IF r.type = "before" THEN r.index ELSE r.index + 1)
                  /\ f.kind # "remove" => sessionState' = <<ratified>>]_vars

\* C20 witness: with no vote taken, the service has just returned to the add
\* handler of the fourth statement, and the statement stands between the two
\* that were ratified before it: the service said Before 1 or After 0.
InsertedInTheMiddle ==
    /\ sessionState # <<>>
    /\ handlers = <<>>
    /\ log.kind = "insertion"
    /\ log.userId = ""
    /\ received.vote = 0
    /\ Len(Cur.statements) = 4
    /\ Len(Cur.ratifiedOrder) = 3
    /\ Cur.ratifiedOrder[2] = 3

\* C21: when the insertion service returns null or an index outside the
\* current ratifiedOrder, or fails, the session the handler goes on with is
\* the one it had with the new index appended to ratifiedOrder; the add and
\* vote handlers save it and every open connection receives it as an
\* ordinary session_state.
FallbackAppends ==
    [][\A h \in 1..Len(handlers), r \in InsertResults :
          (/\ handlers[h].pc = "insert"
           /\ UNCHANGED <<connections, timers, received>>
           /\ \/ r.type \in {"null", "fail"}
              \/ r.index < 0
              \/ r.index >= Len(handlers[h].session.ratifiedOrder)
           /\ InsertionReturns(h, r)) =>
              LET f == handlers[h]
                  ratified == StatementRatified(f.session, f.statementIndex, r)
              IN  /\ ratified = [f.session EXCEPT
                                    !.ratifiedOrder = Append(@, f.statementIndex)]
                  /\ f.kind # "remove" =>
                        /\ sessionState' = <<ratified>>
                        /\ log'.broadcast
                        /\ log'.sent = [k \in 1..Len(connections) |-> ratified]]_vars

\* C21 witness: the insertion service has just failed under the add or vote
\* handler of the second statement, and the statement is the last of the
\* ratifiedOrder every connection received.
AppendedAfterFailure ==
    /\ log.kind = "insertion"
    /\ log.error = PositionError
    /\ log.userId = ""
    /\ connections # <<>>
    /\ Cur.ratifiedOrder = <<0, 1>>
    /\ \A k \in 1..Len(connections) : log.sent[k].ratifiedOrder = <<0, 1>>

\* C22: every statement of the room's session carries a negation and a
\* negationFirst flag.
StatementsCarryNegation ==
    sessionState # <<>> =>
        \A k \in 1..Len(Cur.statements) :
            {"negation", "negationFirst"} \subseteq DOMAIN Cur.statements[k]

\* statement i of the room's session is resolved with all responses true, or
\* a handler is suspended at the insertion service on its behalf
BecameRatified(i) ==
    \/ /\ sessionState # <<>>
       /\ i \in Indices(Cur)
       /\ Ratified(Cur.statements[i + 1])
    \/ \E h \in 1..Len(handlers) :
          handlers[h].pc = "insert" /\ handlers[h].statementIndex = i

\* C23: when the services return in the end, a statement that has become
\* resolved with all responses true has its index in the room's ratifiedOrder
\* at some later time.
RatifiedEventuallyOrdered ==
    \A i \in 0..(MaxStatements - 1) :
        BecameRatified(i) ~> (sessionState # <<>> /\ Includes(Cur.ratifiedOrder, i))

\* C24: a connect sends the room's current session to the new connection in
\* every case; the other connections receive a session_state only if the
\* connect changed the session, and then all receive the new session; a
\* connect to a room without statements leaves the session as it was.
ConnectSendsAndBroadcasts ==
    [][\A id \in Users :
          (received'.connect = received.connect + 1 /\ OnConnect(id)) =>
              LET before == IF sessionState = <<>> THEN initializeSession ELSE Cur
              IN  /\ log'.sent[Len(connections')] = Cur'
                  /\ log'.broadcast => Cur' # before
                  /\ log'.broadcast =>
                        \A k \in 1..Len(connections') : log'.sent[k] = Cur'
                  /\ ~log'.broadcast =>
                        SubSeq(log'.sent, 1, Len(connections)) = log.sent
                  /\ Len(before.statements) = 0 => Cur' = before]_vars

\* C24 witness: u2 has just connected to the room of two tabs, was added to
\* its unresolved statement, and all three connections received that session.
ConnectChangedAndBroadcast ==
    /\ log.kind = "connect"
    /\ log.userId = "u2"
    /\ log.broadcast
    /\ Len(connections) = 3
    /\ Cur.statements[1].present = <<"u1", "u1", "u2">>
    /\ \A k \in 1..3 : log.sent[k] = Cur

Range(seq) == {seq[k] : k \in 1..Len(seq)}

\* the session before a removal with the Remove of userId applied
Removed(base, userId) == ReduceUpdateUnresolved(base, userId, "remove")

\* the statements a removal of userId from session base has to insert, in
\* increasing order: unresolved in base, resolved with all responses true
\* once userId is removed, and not in ratifiedOrder
RemovalTargets(base, userId) ==
    Ascending({i \in getUnresolvedStatements(base) :
                  /\ Ratified(Removed(base, userId).statements[i + 1])
                  /\ ~Includes(base.ratifiedOrder, i)})

\* s is the session Removed(base, userId) with exactly the indices in done
\* put into its ratifiedOrder
RemovedWithInserted(s, base, userId, done) ==
    /\ s = [Removed(base, userId) EXCEPT !.ratifiedOrder = s.ratifiedOrder]
    /\ Range(s.ratifiedOrder) = Range(base.ratifiedOrder) \cup done
    /\ Len(s.ratifiedOrder) = Len(base.ratifiedOrder) + Cardinality(done)

\* a removal suspended at the insertion service waits for one of its targets,
\* has inserted exactly the targets below it, and still has the targets
\* above it to look at
RemovalOnTarget(f) ==
    LET targets == RemovalTargets(f.base, f.userId)
    IN  \E p \in 1..Len(targets) :
            /\ targets[p] = f.statementIndex
            /\ RemovedWithInserted(f.session, f.base, f.userId,
                                   {targets[q] : q \in 1..(p - 1)})
            /\ Range(f.rest) \cap Range(targets) = {targets[q] : q \in (p + 1)..Len(targets)}

\* C25: a grace-timer expiry runs the insertion sub-step for exactly the
\* statements that were unresolved before the Remove, are resolved with all
\* responses true after it and are not in ratifiedOrder, lowest index first;
\* when it ends, the session is saved and broadcast if and only if it differs
\* from the session the removal started from.
RemovalRunsInsertions ==
    [][/\ \A h \in 1..Len(handlers') :
             handlers'[h].kind = "remove" => RemovalOnTarget(handlers'[h])
       /\ (/\ timers' # timers
           /\ UNCHANGED <<connections, received, handlers>>
           /\ sessionState # <<>>) =>
              LET userId == (CHOOSE x \in timers \ timers' : TRUE).userId
              IN  IF Removed(Cur, userId) = Cur /\ RemovalTargets(Cur, userId) = <<>>
                  THEN UNCHANGED sessionState /\ ~log'.broadcast
                  ELSE /\ log'.broadcast
                       /\ RemovedWithInserted(Cur', Cur, userId,
                                              Range(RemovalTargets(Cur, userId)))
       /\ \A h \in 1..Len(handlers) :
             (/\ handlers[h].kind = "remove"
              /\ handlers' = RemoveAt(handlers, h)
              /\ UNCHANGED <<connections, timers, received>>) =>
                 /\ log'.broadcast
                 /\ RemovedWithInserted(Cur', handlers[h].base, handlers[h].userId,
                        Range(RemovalTargets(handlers[h].base, handlers[h].userId)))]_vars

\* a removal of u2, with no vote ever received, ended at the insertion
\* service and left two statements in ratifiedOrder
RemovalInsertedTargets ==
    /\ log.kind = "insertion" /\ log.userId = "u2" /\ log.broadcast
    /\ received.vote = 0
    /\ handlers = <<>>
    /\ sessionState # <<>>
    /\ Len(Cur.ratifiedOrder) = 2

\* the statement of index i in the session every open connection received last
\* has its creator's approval and, when the creator is the only one present,
\* is ratified, is in ratifiedOrder and is not the live statement
CreatorApproved(i) ==
    /\ log'.broadcast
    /\ \A k \in 1..Len(connections) : log'.sent[k] = Cur'
    /\ i + 1 \in 1..Len(Cur'.statements)
    /\ LET statement == Cur'.statements[i + 1]
       IN  /\ statement.createdBy \in DOMAIN statement.responses
           /\ statement.responses[statement.createdBy] = TRUE
           /\ Range(statement.present) = {statement.createdBy} =>
                  /\ Ratified(statement)
                  /\ Includes(Cur'.ratifiedOrder, i)
                  /\ Cur'.liveStatementIndex # i

\* C26: when handleAddStatement ends, the statement it added carries
\* responses[createdBy] = true in the session that is saved and broadcast;
\* if its creator is the only member of present, it is ratified, its index is
\* in ratifiedOrder and liveStatementIndex is another index.
CreatorAutoApproves ==
    [][\A h \in 1..Len(handlers) :
          (/\ handlers[h].kind = "add"
           /\ handlers' = RemoveAt(handlers, h)
           /\ UNCHANGED <<connections, timers, received>>) =>
              CreatorApproved(IF handlers[h].pc = "negation"
                              THEN Len(handlers[h].session.statements)
                              ELSE handlers[h].statementIndex)]_vars

\* C27: in every reachable state of the room, no statement lists a participant
\* id twice in present.
PresentHasNoDuplicates ==
    sessionState # <<>> =>
        \A i \in 1..Len(Cur.statements) :
            LET present == Cur.statements[i].present
            IN  \A j, k \in 1..Len(present) : present[j] = present[k] => j = k

\* C28: whenever no handler is in flight, the session of the last
\* session_state message each open connection received is the room's current
\* session.
ConnectionsHoldCurrentSession ==
    (Quiescent /\ connections # <<>>) =>
        /\ sessionState # <<>>
        /\ Len(log.sent) = Len(connections)
        /\ \A k \in 1..Len(connections) : log.sent[k] = Cur

\* a vote changed the session, no handler is in flight, and both open
\* connections hold the session with that vote
VoteReachedBothConnections ==
    /\ Quiescent
    /\ log.kind = "vote_response" /\ log.broadcast
    /\ connections = <<"u1", "u2">>
    /\ log.sent = <<Cur, Cur>>
    /\ \E i \in 1..Len(Cur.statements) :
          log.userId \in DOMAIN Cur.statements[i].responses
          /\ log.userId # Cur.statements[i].createdBy

\* a step of UpdatePresence: the log names it and no statement was appended
UpdatePresenceStep ==
    /\ log'.kind \in {"add", "remove"}
    /\ Len(session'.statements) = Len(session.statements)

\* C29: UpdatePresence, Add or Remove, leaves every statement that is resolved
\* before it as it is, and changes neither ratifiedOrder nor the text or
\* createdBy of any statement.
ResolvedStatementsFrozen ==
    [][UpdatePresenceStep =>
          /\ session'.ratifiedOrder = session.ratifiedOrder
          /\ \A k \in 1..Len(session.statements) :
                /\ session'.statements[k].text = session.statements[k].text
                /\ session'.statements[k].createdBy = session.statements[k].createdBy
                /\ isStatementResolved(session.statements[k]) =>
                       session'.statements[k] = session.statements[k]]_vars

\* u2 was just removed from the unresolved statements while a resolved
\* statement lists u2 and carries u2's response, and ratifiedOrder is not empty
RemovedWhileInResolved ==
    /\ log.kind = "remove" /\ log.userId = "u2"
    /\ session.ratifiedOrder # <<>>
    /\ Len(session.statements) = 2
    /\ isStatementResolved(session.statements[2])
    /\ session.statements[2].present = <<"u1", "u2">>
    /\ "u2" \in DOMAIN session.statements[2].responses

\* what Respond(statementIndex, userId, response) leaves behind when the index
\* is valid
Upserted(statementIndex, userId, response) ==
    LET before == session.statements[statementIndex + 1]
        after == session'.statements[statementIndex + 1]
    IN  /\ log'.error = ""
        /\ DOMAIN after.responses = DOMAIN before.responses \cup {userId}
        /\ after.responses[userId] = response
        /\ \A u \in DOMAIN before.responses \ {userId} :
              after.responses[u] = before.responses[u]
        /\ after = [before EXCEPT !.responses = after.responses]
        /\ Len(session'.statements) = Len(session.statements)
        /\ \A k \in 1..Len(session.statements) :
              k # statementIndex + 1 => session'.statements[k] = session.statements[k]
        /\ session'.ratifiedOrder = session.ratifiedOrder

\* C30: Respond with a valid index stores the given response under the
\* participant's id, whatever the participant had answered before, keeps the
\* other participants' responses on the statement, and leaves the other
\* statements, every present list and ratifiedOrder as they were.
RespondUpserts ==
    [][(log'.kind = "respond" /\ log'.error = "" /\ session' # session) =>
          \A statementIndex \in Indices(session), response \in BOOLEAN :
              Respond(statementIndex, log'.userId, response) =>
                  Upserted(statementIndex, log'.userId, response)]_vars

\* u1 has just answered the ratified statement again, now with false, and the
\* second statement is as it was added
RespondReplacedEarlier ==
    /\ log.kind = "respond" /\ log.error = "" /\ log.userId = "u1"
    /\ session.ratifiedOrder = <<0>>
    /\ Len(session.statements) = 2
    /\ session.statements[1].present = <<"u1">>
    /\ session.statements[1].responses = [u \in {"u1"} |-> FALSE]
    /\ DOMAIN session.statements[2].responses = {}

\* what AddStatement(text, createdBy, presentUsers) leaves behind
Appended(text, createdBy, presentUsers) ==
    /\ Len(session'.statements) = Len(session.statements) + 1
    /\ SubSeq(session'.statements, 1, Len(session.statements)) = session.statements
    /\ session'.statements[Len(session'.statements)] =
          [text |-> text, createdBy |-> createdBy, present |-> presentUsers,
           responses |-> <<>>]
    /\ session'.ratifiedOrder = session.ratifiedOrder
    /\ session'.liveStatementIndex =
          IF session.liveStatementIndex # Null
          THEN session.liveStatementIndex
          ELSE selectNextLiveStatementIndex(
                  [session EXCEPT !.statements = session'.statements])
    /\ (session.statements = <<>> /\ session.liveStatementIndex = Null
           /\ presentUsers # <<>>) => session'.liveStatementIndex = 0

\* C31: AddStatement appends one statement with the given text and createdBy,
\* present as given and no responses, leaves the statements before it and
\* ratifiedOrder as they were, keeps a non-null liveStatementIndex, and sets a
\* null one to the scheduler's choice on the updated session (index 0 for the
\* first statement of an empty session when present is not empty).
AddStatementAppends ==
    [][(log'.kind = "add" /\ Len(session'.statements) # Len(session.statements)) =>
          \A text \in ReducerTexts, presentUsers \in PresentLists :
              AddStatement(text, log'.userId, presentUsers) =>
                  Appended(text, log'.userId, presentUsers)]_vars

\* u2 has just added a third statement, with only u1 present: statement 1
\* stays live although the scheduler would now pick the new one
AddedWhileLive ==
    /\ log.kind = "add" /\ log.userId = "u2"
    /\ Len(session.statements) = 3
    /\ session.statements[3] =
          [text |-> "a", createdBy |-> "u2", present |-> <<"u1">>, responses |-> <<>>]
    /\ session.liveStatementIndex = 1
    /\ ~isStatementResolved(session.statements[2])
    /\ selectNextLiveStatementIndex(session) = 2
    /\ session.ratifiedOrder = <<0>>

\* statement after is statement before with every entry of userId taken out
\* of present and userId's response deleted
TakenOut(before, after, userId) ==
    /\ after.present = SelectSeq(before.present, LAMBDA x : x # userId)
    /\ DOMAIN after.responses = DOMAIN before.responses \ {userId}
    /\ \A u \in DOMAIN after.responses : after.responses[u] = before.responses[u]
    /\ after.text = before.text
    /\ after.createdBy = before.createdBy

\* C32: UpdatePresence Remove takes the participant out of present and deletes
\* their response in every unresolved statement they did not create; when the
\* live statement is resolved by it, liveStatementIndex becomes the
\* scheduler's choice on the updated session, null if nothing is unresolved.
RemoveTakesOut ==
    [][log'.kind = "remove" =>
          /\ Len(session'.statements) = Len(session.statements)
          /\ \A k \in 1..Len(session.statements) :
                (/\ ~isStatementResolved(session.statements[k])
                 /\ session.statements[k].createdBy # log'.userId) =>
                    TakenOut(session.statements[k], session'.statements[k], log'.userId)
          /\ (/\ session.liveStatementIndex # Null
              /\ ~isStatementResolved(session.statements[session.liveStatementIndex + 1])
              /\ isStatementResolved(session'.statements[session.liveStatementIndex + 1])) =>
                 session'.liveStatementIndex =
                    selectNextLiveStatementIndex(
                       [session EXCEPT !.statements = session'.statements])]_vars

\* u2 has just been removed: statement 1, which waited for u2 alone, is
\* resolved without u2, and the statement u2 created is live in its place
RemovalPassedTheTurn ==
    /\ log.kind = "remove" /\ log.userId = "u2"
    /\ Len(session.statements) = 3
    /\ session.statements[2].present = <<"u1">>
    /\ DOMAIN session.statements[2].responses = {"u1"}
    /\ session.statements[3].createdBy = "u2"
    /\ Includes(session.statements[3].present, "u2")
    /\ ~isStatementResolved(session.statements[3])
    /\ session.liveStatementIndex = 2

\* C33: across every reducer action, a non-null liveStatementIndex changes
\* only if the statement it referenced is resolved after the action.
LiveIsSticky ==
    [][(/\ session.liveStatementIndex # Null
        /\ session'.liveStatementIndex # session.liveStatementIndex) =>
           isStatementResolved(session'.statements[session.liveStatementIndex + 1])]_vars

\* u2 has just answered another statement than the live one: statement 1 is
\* still live and unresolved, although the scheduler would now pick index 2
VotedBesideTheLive ==
    /\ log.kind = "respond" /\ log.error = "" /\ log.userId = "u2"
    /\ Len(session.statements) = 3
    /\ session.liveStatementIndex = 1
    /\ ~isStatementResolved(session.statements[2])
    /\ "u2" \notin DOMAIN session.statements[2].responses
    /\ session.statements[3].present = <<"u1", "u2">>
    /\ DOMAIN session.statements[3].responses = {"u2"}
    /\ selectNextLiveStatementIndex(session) = 2

\* every index of order is in newOrder, and the indices of order come in
\* newOrder in the order they had
KeepsOrder(order, newOrder) ==
    SelectSeq(newOrder, LAMBDA x : Includes(order, x)) = order

\* C34: across every event of the room, the indices in ratifiedOrder stay in
\* it and keep their relative order.
NarrativeOnlyGrows ==
    [][(sessionState # <<>> /\ sessionState' # <<>>) =>
          KeepsOrder(Cur.ratifiedOrder, Cur'.ratifiedOrder)]_vars

\* C35: whenever no handler is in flight, every participant with an open
\* connection is in the present list of every unresolved statement.
ConnectedArePresent ==
    (Quiescent /\ sessionState # <<>>) =>
        \A k \in 1..Len(connections) : PresentInEveryUnresolved(Cur, connections[k])

\* a grace timer has expired in a room that has a session: the timer is gone
\* and no message was received
TimerExpired ==
    /\ timers' # timers /\ timers' \subseteq timers
    /\ received' = received
    /\ sessionState # <<>>

\* C36: when a grace timer expires and the Remove of its participant takes
\* the participant out of a statement, the participant has no open connection
\* in the room.
RemovedOnlyWhenGone ==
    [][TimerExpired =>
          \A t \in timers \ timers' :
              Removed(Cur, t.userId) # Cur => ~Includes(connections, t.userId)]_vars

\* statement i is the live statement of the room
IsLive(i) == sessionState # <<>> /\ Cur.liveStatementIndex = i

\* statement i of the room is resolved
IsResolved(i) ==
    /\ sessionState # <<>>
    /\ i + 1 \in 1..Len(Cur.statements)
    /\ isStatementResolved(Cur.statements[i + 1])

\* every participant with an open connection has a response on the live
\* statement, if there is one
ConnectedHaveVoted ==
    (sessionState # <<>> /\ Cur.liveStatementIndex + 1 \in 1..Len(Cur.statements)) =>
        \A k \in 1..Len(connections) :
            connections[k] \in DOMAIN Cur.statements[Cur.liveStatementIndex + 1].responses

\* C37: if the connected participants vote on the live statement again and
\* again and the grace timers fire, every statement that becomes live is
\* resolved at some later time.
LiveEventuallyResolved ==
    ([]<>ConnectedHaveVoted /\ []<>(timers = {})) =>
        \A i \in 0..(MaxStatements - 1) : IsLive(i) ~> IsResolved(i)

\* C38: across every reducer action, a statement that is resolved stays
\* resolved.
ResolutionIsPermanent ==
    [][\A k \in 1..Len(session.statements) :
          isStatementResolved(session.statements[k]) =>
              /\ k <= Len(session'.statements)
              /\ isStatementResolved(session'.statements[k])]_vars

====
